---- MODULE Spec2Model ----
(***************************************************************************)
(* Model of app.py (Naval Motors price-analysis Streamlit script).         *)
(*                                                                         *)
(* The script is re-executed top to bottom on every interaction.  One run  *)
(* is: load_and_clean_data() (memoised by st.cache_data), the `df is None` *)
(* stop, the sidebar inputs, the multiplier and floor filter, the cohort   *)
(* selection and the statistics / recommendation.                          *)
(*                                                                         *)
(* Text fields are sequences of one-character strings so that split,       *)
(* isnumeric, int() and to_numeric are computed, not assumed.  Prices are  *)
(* integers; the multiplier is kept in tenths (m10) so that                *)
(* adjusted_price is kept times 10 (adj10) and the median times 20.        *)
(* Arithmetic is exact (binary floating-point rounding is not modelled),   *)
(* and the series field of a row is never empty.                           *)
(***************************************************************************)
EXTENDS Integers, Sequences, FiniteSets, TLC

VARIABLES file, cache, pc, df, df_clean, cfg, sel, target_cars, stats, messages

vars == <<file, cache, pc, df, df_clean, cfg, sel, target_cars, stats, messages>>

(* ---------------------------- bounds ----------------------------------- *)
MaxRows == 2

(* ------------------------- text helpers -------------------------------- *)
Digits == {"0", "1", "2", "3", "4", "5", "6", "7", "8", "9"}

\* Characters for which str.isnumeric() is true: the ASCII digits and other
\* Unicode numerics such as SUPERSCRIPT TWO (written "sup2"), which int()
\* does not accept.
NumericChars == Digits \cup {"sup2"}

DigitVal(c) ==
  CASE c = "0" -> 0 [] c = "1" -> 1 [] c = "2" -> 2 [] c = "3" -> 3
    [] c = "4" -> 4 [] c = "5" -> 5 [] c = "6" -> 6 [] c = "7" -> 7
    [] c = "8" -> 8 [] c = "9" -> 9

DigitChar(d) ==
  CASE d = 0 -> "0" [] d = 1 -> "1" [] d = 2 -> "2" [] d = 3 -> "3"
    [] d = 4 -> "4" [] d = 5 -> "5" [] d = 6 -> "6" [] d = 7 -> "7"
    [] d = 8 -> "8" [] d = 9 -> "9"

AllIn(s, S) == \A i \in 1..Len(s) : s[i] \in S

\* str.split('/').str[0]: the text before the first '/'.
SplitFirst(s) ==
  IF \E i \in 1..Len(s) : s[i] = "/"
    THEN SubSeq(s, 1, (CHOOSE i \in 1..Len(s) :
                         s[i] = "/" /\ \A j \in 1..(i-1) : s[j] # "/") - 1)
    ELSE s

\* str.isnumeric(): non-empty and every character numeric.
IsNumeric(s) == Len(s) > 0 /\ AllIn(s, NumericChars)

\* int(s) succeeds on a non-empty run of decimal digits.
IntParsable(s) == Len(s) > 0 /\ AllIn(s, Digits)

RECURSIVE ParseInt(_)
ParseInt(s) ==
  IF Len(s) = 0 THEN 0
  ELSE 10 * ParseInt(SubSeq(s, 1, Len(s) - 1)) + DigitVal(s[Len(s)])

RECURSIVE IntToStr(_)
IntToStr(n) ==
  IF n < 10 THEN <<DigitChar(n)>>
  ELSE Append(IntToStr(n \div 10), DigitChar(n % 10))

(* --------------------------- read_csv ---------------------------------- *)
\* A raw row is <<series, year text, price text>>; a file is
\* [status, header, rows] where header names the four columns in order
\* (series-like, year-like, price-like, description-like).

\* df.columns.str.strip().str.lower() on the column names that occur.
StripLower(name) ==
  CASE name = "Model"       -> "model"
    [] name = " SERIES "    -> "series"
    [] name = "Trim"        -> "trim"
    [] name = "Year"        -> "year"
    [] name = " YEAR "      -> "year"
    [] name = "Yr"          -> "yr"
    [] name = "Price"       -> "price"
    [] name = "Naval_Price" -> "naval_price"
    [] name = "Cost"        -> "cost"
    [] name = "raw_text"    -> "raw_text"
    [] name = "Notes"       -> "notes"

rename_map(name) ==
  CASE name = "model"    -> "series"
    [] name = "raw_text" -> "desc"
    [] OTHER             -> name

Columns(header) == [i \in 1..Len(header) |-> rename_map(StripLower(header[i]))]

HasColumn(cols, name) == \E i \in 1..Len(cols) : cols[i] = name

ColIndex(cols, name) == CHOOSE i \in 1..Len(cols) : cols[i] = name

\* dtype inference of read_csv for the year column: int64 when every field
\* is an integer, float64 when the non-empty ones are integers and some are
\* empty (NaN), object (text) otherwise.
YearColumnDtype(fields) ==
  LET nonEmpty == {i \in 1..Len(fields) : Len(fields[i]) > 0} IN
    IF \A i \in nonEmpty : AllIn(fields[i], Digits)
      THEN IF nonEmpty = 1..Len(fields) THEN "int64" ELSE "float64"
      ELSE "object"

\* .astype(str) of one cell of the year column.
YearAsStr(dtype, field) ==
  IF Len(field) = 0 THEN <<"n", "a", "n">>
  ELSE IF dtype = "int64" THEN IntToStr(ParseInt(field))
  ELSE IF dtype = "float64" THEN IntToStr(ParseInt(field)) \o <<".", "0">>
  ELSE field

\* read_csv followed by pd.to_numeric(errors='coerce') on one price cell:
\* an optionally signed run of digits is a number, everything else
\* (empty, "N/A", text with thousands separators) is NaN.
PriceIsNumber(field) ==
  \/ IntParsable(field)
  \/ Len(field) > 1 /\ field[1] = "-" /\ IntParsable(Tail(field))

ToNumeric(field) ==
  IF field[1] = "-" THEN 0 - ParseInt(Tail(field)) ELSE ParseInt(field)

(* --------------------- load_and_clean_data ----------------------------- *)
\* st.error(f"數據讀取發生錯誤: {e}") and the other user-visible messages.
Msg(kind, detail, count) == [kind |-> kind, detail |-> detail, count |-> count]

\* `return None`, with the messages emitted inside the function.
NoneResult(msgs) ==
  [none |-> TRUE, rows |-> <<>>, hasDesc |-> FALSE, msgs |-> msgs]

\* Step 3 of the loader: the token that isnumeric() and int() are applied to.
YearToken(dtype, field) == SplitFirst(YearAsStr(dtype, field))

\* Step 3 filter: df = df[df['year'].str.isnumeric()].
YearKept(dtype, field) == IsNumeric(YearToken(dtype, field))

\* Step 4: the price column that is parsed.
target_price_col(cols) ==
  IF HasColumn(cols, "naval_price") THEN "naval_price" ELSE "price"

\* Step 4 filter: dropna(subset=['price']).
PriceKept(field) == PriceIsNumber(field)

\* The body of load_and_clean_data (what runs on a cache miss).  Rows keep
\* their pandas index (idx) through the filters.
load_body(f) ==
  IF f.status = "missing" THEN NoneResult(<<>>)
  ELSE IF f.status = "unreadable" THEN NoneResult(<<Msg("load_error", "read", 0)>>)
  ELSE
    LET cols == Columns(f.header)
        n    == Len(f.rows)
        seriesOf(i) == IF HasColumn(cols, "series")
                         THEN f.rows[i][ColIndex(cols, "series")]
                         ELSE "Unknown"
    IN
    IF ~HasColumn(cols, "year") THEN NoneResult(<<Msg("load_error", "year", 0)>>)
    ELSE
      LET yi      == ColIndex(cols, "year")
          dtype   == YearColumnDtype([i \in 1..n |-> f.rows[i][yi]])
          idxs    == [i \in 1..n |-> i]
          keptY   == SelectSeq(idxs, LAMBDA i : YearKept(dtype, f.rows[i][yi]))
      IN
      IF \E k \in 1..Len(keptY) :
            ~IntParsable(YearToken(dtype, f.rows[keptY[k]][yi]))
        THEN NoneResult(<<Msg("load_error", "int", 0)>>)
      ELSE IF ~HasColumn(cols, target_price_col(cols))
        THEN NoneResult(<<Msg("load_error", "price", 0)>>)
      ELSE
        LET pi    == ColIndex(cols, target_price_col(cols))
            keptP == SelectSeq(keptY, LAMBDA i : PriceKept(f.rows[i][pi]))
        IN [none    |-> FALSE,
            rows    |-> [k \in 1..Len(keptP) |->
                          [idx    |-> keptP[k],
                           series |-> seriesOf(keptP[k]),
                           year   |-> ParseInt(YearToken(dtype, f.rows[keptP[k]][yi])),
                           price  |-> ToNumeric(f.rows[keptP[k]][pi])]],
            hasDesc |-> HasColumn(cols, "desc"),
            msgs    |-> <<>>]

\* @st.cache_data on a function without arguments: the first call runs the
\* body and stores what it returned (None included) together with the
\* elements it emitted; every later call returns a copy of the stored value
\* and replays those elements.  The source file is not part of the key.
cached_value(c, f) == IF c.set THEN c.value ELSE load_body(f)

(* ------------------- sidebar, filter and statistics -------------------- *)
\* price_multiplier: number_input(value=1.0, min 0.1, max 100.0), in tenths.
DefaultMultiplier10 == 10

\* number_input("過濾低於此價格的異常車源 (萬)", value=10, step=5).
DefaultFloorWan == 10

\* number_input("網路上看到的開價 (萬)", value=50.0).
DefaultUserWan == 50

\* Mutant: the multiplier from the sidebar is ignored.
adjusted_price_unscaled(row, m10) == row.price * 10

\* Mutant: the multiplier is applied to an already multiplied price.
adjusted_price_compound(row, m10) == (row.price * m10 * m10) \div 10

\* df['adjusted_price'] = df['price'] * price_multiplier  (times 10).
adjusted_price(row, m10) == row.price * m10

WithAdjusted(rows, m10) ==
  [i \in 1..Len(rows) |->
     [idx |-> rows[i].idx, series |-> rows[i].series, year |-> rows[i].year,
      price |-> rows[i].price, adj10 |-> adjusted_price(rows[i], m10)]]

\* Mutant: a price equal to the floor passes the filter.
AboveFloor_inclusive(row, floorWan) == row.adj10 >= floorWan * 10000 * 10

\* filter_threshold = floor * 10000, compared with adjusted_price (times 10).
AboveFloor(row, floorWan) == row.adj10 > floorWan * 10000 * 10

\* df_clean = df[df['adjusted_price'] > filter_threshold]
FilterClean(rows, floorWan) ==
  SelectSeq(rows, LAMBDA r : AboveFloor(r, floorWan))

\* sorted(df_clean['series'].unique())
model_list(clean) == {clean[i].series : i \in 1..Len(clean)}

\* sorted(df_clean[df_clean['series'] == selected_model]['year'].unique())
year_list(clean, model) ==
  {clean[i].year : i \in {j \in 1..Len(clean) : clean[j].series = model}}

\* st.selectbox returns one of its options, or None when there are none.
ModelChoices(clean) ==
  IF model_list(clean) = {} THEN {"None"} ELSE model_list(clean)

YearChoices(clean, model) ==
  IF year_list(clean, model) = {} THEN {-1} ELSE year_list(clean, model)

\* target_cars = df_clean[(series == selected_model) & (year == selected_year)]
Cohort(clean, model, year) ==
  SelectSeq(clean, LAMBDA r : r.series = model /\ r.year = year)

RECURSIVE Insert(_, _)
Insert(x, s) ==
  IF Len(s) = 0 THEN <<x>>
  ELSE IF x <= Head(s) THEN <<x>> \o s
  ELSE <<Head(s)>> \o Insert(x, Tail(s))

RECURSIVE SortAsc(_)
SortAsc(s) == IF Len(s) = 0 THEN <<>> ELSE Insert(Head(s), SortAsc(Tail(s)))

\* Series.median() of adjusted_price, times 20 (adj10 times 2).
Median20(rows) ==
  LET v == SortAsc([i \in 1..Len(rows) |-> rows[i].adj10])
      n == Len(v)
  IN IF n % 2 = 1 THEN 2 * v[(n + 1) \div 2]
     ELSE v[n \div 2] + v[n \div 2 + 1]

Min10(rows) == SortAsc([i \in 1..Len(rows) |-> rows[i].adj10])[1]

Max10(rows) == SortAsc([i \in 1..Len(rows) |-> rows[i].adj10])[Len(rows)]

\* price_diff = user_price_raw - market_median, times 20.
PriceDiff20(userWan, rows) == userWan * 10000 * 20 - Median20(rows)

\* Section 7 of the script: the three-way recommendation.
Recommendation(diff20) ==
  IF diff20 > 50000 * 20 THEN "LowEV"
  ELSE IF diff20 < (0 - 30000) * 20 THEN "HighEV"
  ELSE "FairValue"

\* Mutant: a single row is taken as a sufficient sample.
Insufficient_single(cohort) == Len(cohort) < 1

\* len(target_cars) < 2 selects the insufficient-data branch.
Insufficient(cohort) == Len(cohort) < 2

NoStats ==
  [shown |-> FALSE, median20 |-> 0, min10 |-> 0, max10 |-> 0, diff20 |-> 0,
   rec |-> "none"]

ComputeStats(userWan, cohort) ==
  [shown |-> TRUE, median20 |-> Median20(cohort), min10 |-> Min10(cohort),
   max10 |-> Max10(cohort), diff20 |-> PriceDiff20(userWan, cohort),
   rec |-> Recommendation(PriceDiff20(userWan, cohort))]

(* ----------------------------- inputs ---------------------------------- *)
Series == {"PRIUS", "ALTIS"}

YearFields ==
  { <<"2","0","1","2">>,
    <<"2","0","1","2","/","0","3">>,
    <<"2","0","1","2","/","0","5">>,
    <<"1","2">>,
    <<"1","2","/","0","3">>,
    <<"'","1","2">>,
    <<"a","b","c","d">>,
    <<"0","2","0","1","2","3">>,
    <<"sup2","0","1","2">>,
    <<>> }

PriceFields ==
  { <<"4","5","0","0","0">>,
    <<"4","7","0","0","0","0">>,
    <<"1",",","2","3","4",",","5","0","0">>,
    <<"N","/","A">>,
    <<"-","5","0","0","0">>,
    <<"1","0","0","0","0","0">>,
    <<>> }

\* Every year form priced "470000", and every series and price with the
\* years "2012" and "2012/03".
Rows ==
  {<<"PRIUS", y, <<"4","7","0","0","0","0">> >> : y \in YearFields}
    \cup {<<s, y, p>> : s \in Series,
                        y \in {<<"2","0","1","2">>, <<"2","0","1","2","/","0","3">>},
                        p \in PriceFields}

Tables == UNION {[1..n -> Rows] : n \in 0..MaxRows}

\* The end-to-end scenario of the specification.
ScenarioRows ==
  << <<"PRIUS", <<"2","0","1","2","/","0","3">>, <<"4","5","0","0","0">> >>,
     <<"PRIUS", <<"2","0","1","2","/","0","5">>, <<"4","7","0","0","0","0">> >>,
     <<"PRIUS", <<"2","0","1","3">>, <<>> >> >>

StdHeader == <<"Model", "Year", "Price", "raw_text">>

Headers ==
  { StdHeader,
    <<"Model", "Year", "Price", "Notes">>,
    <<" SERIES ", " YEAR ", "Naval_Price", "raw_text">>,
    <<"Trim", "Year", "Price", "raw_text">>,
    <<"Model", "Yr", "Price", "raw_text">>,
    <<"Model", "Year", "Cost", "raw_text">> }

OkFile(h, t) == [status |-> "ok", header |-> h, rows |-> t]

MissingFile == [status |-> "missing", header |-> StdHeader, rows |-> <<>>]

UnreadableFile == [status |-> "unreadable", header |-> StdHeader, rows |-> <<>>]

Files ==
  {OkFile(StdHeader, t) : t \in Tables}
    \cup {OkFile(h, ScenarioRows) : h \in Headers}
    \cup {MissingFile, UnreadableFile}

\* Contents the operator may put in place of the current file between runs.
Uploads == {OkFile(StdHeader, ScenarioRows), OkFile(<<"Model", "Yr", "Price", "raw_text">>, ScenarioRows)}

Multipliers == {DefaultMultiplier10, 12, 100}

Floors == {DefaultFloorWan, 0}

UserPrices == {DefaultUserWan, 260}

(* --------------------------- state machine ----------------------------- *)
NoDf == [none |-> TRUE, rows |-> <<>>, hasDesc |-> FALSE]

NoCfg == [m10 |-> DefaultMultiplier10, floorWan |-> DefaultFloorWan,
          userWan |-> DefaultUserWan]

NoSel == [model |-> "None", year |-> -1]

Init ==
  /\ file \in Files
  /\ cache = [set |-> FALSE, value |-> NoneResult(<<>>)]
  /\ pc = "idle"
  /\ df = NoDf
  /\ df_clean = <<>>
  /\ cfg = NoCfg
  /\ sel = NoSel
  /\ target_cars = <<>>
  /\ stats = NoStats
  /\ messages = <<>>

\* df = load_and_clean_data(): the start of a script run.
LoadAndClean ==
  /\ pc \in {"idle", "stopped", "done", "crashed"}
  /\ LET r == cached_value(cache, file) IN
       /\ cache' = [set |-> TRUE, value |-> r]
       /\ df' = [none |-> r.none, rows |-> r.rows, hasDesc |-> r.hasDesc]
       /\ messages' = r.msgs
  /\ pc' = "loaded"
  /\ df_clean' = <<>>
  /\ cfg' = NoCfg
  /\ sel' = NoSel
  /\ target_cars' = <<>>
  /\ stats' = NoStats
  /\ UNCHANGED file

\* if df is None: st.error(...); st.stop()
StopNoData ==
  /\ pc = "loaded"
  /\ df.none
  /\ messages' = Append(messages, Msg("file_not_found", "clean_toyota_data.csv", 0))
  /\ pc' = "stopped"
  /\ UNCHANGED <<file, cache, df, df_clean, cfg, sel, target_cars, stats>>

\* The rest of the script, from the sidebar to the recommendation and the
\* detail table, for one choice of the widgets' values.
Analyze(m10, floorWan, userWan) ==
  /\ pc = "loaded"
  /\ ~df.none
  /\ LET rows  == WithAdjusted(df.rows, m10)
         clean == FilterClean(rows, floorWan)
     IN \E model \in ModelChoices(clean) :
          \E year \in YearChoices(clean, model) :
            LET cohort == Cohort(clean, model, year) IN
              /\ df' = [df EXCEPT !.rows = rows]
              /\ df_clean' = clean
              /\ cfg' = [m10 |-> m10, floorWan |-> floorWan, userWan |-> userWan]
              /\ sel' = [model |-> model, year |-> year]
              /\ target_cars' = cohort
              /\ IF Insufficient(cohort)
                   THEN /\ stats' = NoStats
                        /\ messages' = Append(messages,
                                           Msg("insufficient", "", Len(cohort)))
                        /\ pc' = "done"
                   ELSE /\ stats' = ComputeStats(userWan, cohort)
                        /\ messages' = messages
                        \* the detail table selects the 'desc' column
                        /\ pc' = IF df.hasDesc THEN "done" ELSE "crashed"
  /\ UNCHANGED <<file, cache>>

\* Between runs the source file is deleted ...
RemoveFile ==
  /\ pc \in {"stopped", "done", "crashed"}
  /\ file.status # "missing"
  /\ file' = MissingFile
  /\ UNCHANGED <<cache, pc, df, df_clean, cfg, sel, target_cars, stats, messages>>

\* ... or replaced by other content.
ReplaceFile(f) ==
  /\ pc \in {"stopped", "done", "crashed"}
  /\ file # f
  /\ file' = f
  /\ UNCHANGED <<cache, pc, df, df_clean, cfg, sel, target_cars, stats, messages>>

Next ==
  \/ LoadAndClean
  \/ StopNoData
  \/ \E m10 \in Multipliers, floorWan \in Floors, userWan \in UserPrices :
       Analyze(m10, floorWan, userWan)
  \/ RemoveFile
  \/ \E f \in Uploads : ReplaceFile(f)

Spec == Init /\ [][Next]_vars

(* ------------------------------ claims --------------------------------- *)
Finished == pc \in {"done", "crashed"}

\* What the loader returns for the scenario rows under the standard header.
ScenarioLoaded == load_body(OkFile(StdHeader, ScenarioRows)).rows

\* The run analysed the scenario rows and the cohort PRIUS / 2012.
ScenarioRun ==
  /\ Finished
  /\ Len(df.rows) = Len(ScenarioLoaded)
  /\ \A i \in 1..Len(df.rows) :
       /\ df.rows[i].idx = ScenarioLoaded[i].idx
       /\ df.rows[i].series = ScenarioLoaded[i].series
       /\ df.rows[i].year = ScenarioLoaded[i].year
       /\ df.rows[i].price = ScenarioLoaded[i].price

\* C1 (as stated): with the default configuration the scenario rows give a
\* PRIUS / 2012 cohort whose median is 2,575,000, the raw median 257500
\* having been multiplied by 10 without any operator input.
C1_AutomaticTenfold ==
  (ScenarioRun /\ cfg = NoCfg) =>
     /\ sel = [model |-> "PRIUS", year |-> 2012]
     /\ stats.shown
     /\ stats.median20 = 2575000 * 20

\* C1 (amended): every corrected price is the loaded price times the
\* multiplier the operator entered, whatever the median is.  For the scenario
\* rows the default configuration leaves one PRIUS / 2012 row (470000) and no
\* median; with the multiplier set to 10.0 the cohort median is 2,575,000.
C1_OperatorMultiplier ==
  Finished =>
     /\ \A i \in 1..Len(df.rows) :
          df.rows[i].adj10 * 10 = df.rows[i].price * 10 * cfg.m10
     /\ (ScenarioRun /\ cfg = NoCfg) =>
          /\ Len(target_cars) <= 1
          /\ ~stats.shown
          /\ \A k \in 1..Len(target_cars) : target_cars[k].price = 470000
     /\ (ScenarioRun /\ cfg.m10 = 100) =>
          /\ sel = [model |-> "PRIUS", year |-> 2012]
          /\ stats.shown
          /\ stats.median20 = 2575000 * 20

C1_Witness ==
  /\ ScenarioRun
  /\ file = OkFile(StdHeader, ScenarioRows)
  /\ cfg.m10 = 100
  /\ stats.shown
  /\ stats.median20 = 2575000 * 20

\* A load that runs the loader's body on a readable file with a year column.
FreshLoad ==
  /\ LoadAndClean
  /\ ~cache.set
  /\ file.status = "ok"
  /\ HasColumn(Columns(file.header), "year")

\* C2: every listing returned by the load has a four-digit year; a row whose
\* year field (up to the first '/') is not exactly four digits is dropped and
\* only that row: a row whose year token is four digits and whose price
\* parses is returned with that year.
C2_FourDigitYear ==
  [][FreshLoad =>
       LET cols == Columns(file.header)
           yi   == ColIndex(cols, "year")
           pi   == ColIndex(cols, target_price_col(cols))
           tok(i)   == SplitFirst(file.rows[i][yi])
           valid(i) == Len(tok(i)) = 4 /\ AllIn(tok(i), Digits)
           out      == df'.rows
       IN /\ \A k \in 1..Len(out) : out[k].year >= 1000 /\ out[k].year <= 9999
          /\ \A i \in 1..Len(file.rows) :
               /\ ~valid(i) => ~\E k \in 1..Len(out) : out[k].idx = i
               /\ (valid(i) /\ HasColumn(cols, target_price_col(cols))
                     /\ PriceKept(file.rows[i][pi]))
                    => \E k \in 1..Len(out) :
                         out[k].idx = i /\ out[k].year = ParseInt(tok(i))
  ]_vars

\* C3: a price written with thousands separators is kept with its numeric
\* value; the price stage drops a row only when its price is no number at
\* all, and a dropped row is not returned with a placeholder price.
C3_PermissivePrice ==
  [][(FreshLoad /\ ~df'.none) =>
       LET cols == Columns(file.header)
           yi   == ColIndex(cols, "year")
           pi   == ColIndex(cols, target_price_col(cols))
           dtype == YearColumnDtype([i \in 1..Len(file.rows) |-> file.rows[i][yi]])
           plain(i) == SelectSeq(file.rows[i][pi], LAMBDA c : c # ",")
           out      == df'.rows
       IN \A i \in 1..Len(file.rows) :
            YearKept(dtype, file.rows[i][yi]) =>
              /\ PriceIsNumber(plain(i)) =>
                   \E k \in 1..Len(out) :
                     out[k].idx = i /\ out[k].price = ToNumeric(plain(i))
              /\ ~PriceIsNumber(plain(i)) =>
                   ~\E k \in 1..Len(out) : out[k].idx = i
  ]_vars

\* The load failed because no column maps to `year`.
MissingYearSignalled ==
  \E k \in 1..Len(messages) :
    messages[k].kind = "load_error" /\ messages[k].detail = "year"

\* C4: when no column maps to `year` the load returns None without raising,
\* the run stops before any query or statistic, and what the user is told
\* describes the missing field and no other cause.
C4_MissingYearSignal ==
  MissingYearSignalled =>
     /\ df.none
     /\ pc \in {"loaded", "stopped"}
     /\ ~stats.shown
     /\ df_clean = <<>> /\ target_cars = <<>>
     /\ \A k \in 1..Len(messages) : messages[k].kind # "file_not_found"

\* C5: if the source file cannot be found or read the load returns None
\* without raising, and a run whose load returned None shows the guidance
\* message and stops without filtering, selecting or computing statistics.
C5_UnavailableSourceIsNone ==
  /\ (pc = "loaded" /\ file.status # "ok") => df.none
  /\ pc \in {"idle", "loaded", "stopped", "done", "crashed"}
  /\ (df.none /\ pc # "idle") =>
        /\ pc \in {"loaded", "stopped"}
        /\ ~stats.shown
        /\ df_clean = <<>> /\ target_cars = <<>>
        /\ pc = "stopped" =>
             messages[Len(messages)].kind = "file_not_found"

\* C6: the result of a load is the pipeline applied to the current content
\* of the source, also after the source has changed.
C6_CacheFollowsSource ==
  pc = "loaded" =>
     LET r == load_body(file) IN
       /\ df.none = r.none
       /\ df.rows = r.rows

C8_DefaultKeepsAll ==
  (Finished /\ cfg = NoCfg) =>
     /\ Len(df_clean) = Len(df.rows)
     /\ \A i \in 1..Len(df_clean) :
          df_clean[i].idx = df.rows[i].idx /\ df_clean[i].adj10 = df.rows[i].price * 10

\* C8 (amended): with the default configuration the multiplier is 1.0 and
\* the floor is 10 (100000): exactly the listings priced strictly above
\* 100000 are in the dataset the cohort queries run on, price unchanged.
C8_DefaultFloor ==
  (Finished /\ cfg = NoCfg) =>
     /\ cfg.m10 = 10
     /\ \A i \in 1..Len(df.rows) :
          (df.rows[i].price > 100000) <=>
            \E k \in 1..Len(df_clean) : df_clean[k].idx = df.rows[i].idx
     /\ \A k \in 1..Len(df_clean) :
          /\ df_clean[k].adj10 = df_clean[k].price * 10
          /\ \E i \in 1..Len(df.rows) :
               df.rows[i].idx = df_clean[k].idx /\ df.rows[i].price = df_clean[k].price

C8_Witness ==
  /\ Finished
  /\ cfg = NoCfg
  /\ Len(df.rows) = 2
  /\ Len(df_clean) = 1
  /\ df.rows[1].price = 100000

\* C9: every listing returned by the load has a non-negative price.
C9_NonNegativePrice ==
  (pc = "loaded" /\ ~df.none) =>
     \A i \in 1..Len(df.rows) : df.rows[i].price >= 0

\* C10: statistics and a recommendation exist exactly when the selected
\* cohort has at least 2 rows; otherwise the run reports insufficient data
\* with the number of surviving rows.  The cohort is exactly the rows with
\* the selected series and year and a corrected price above the floor.
C10_CohortStatistics ==
  /\ stats.shown => Finished
  /\ (stats.rec # "none") <=> stats.shown
  /\ Finished =>
       /\ stats.shown <=> Len(target_cars) >= 2
       /\ Len(target_cars) < 2 =>
            /\ messages[Len(messages)].kind = "insufficient"
            /\ messages[Len(messages)].count = Len(target_cars)
       /\ Len(target_cars) >= 2 =>
            \A k \in 1..Len(messages) : messages[k].kind # "insufficient"
       /\ \A k \in 1..Len(target_cars) :
            /\ target_cars[k].series = sel.model
            /\ target_cars[k].year = sel.year
            /\ target_cars[k].adj10 > cfg.floorWan * 10000 * 10
       /\ \A i \in 1..Len(df.rows) :
            (/\ df.rows[i].series = sel.model
             /\ df.rows[i].year = sel.year
             /\ df.rows[i].adj10 > cfg.floorWan * 10000 * 10)
              => \E k \in 1..Len(target_cars) : target_cars[k] = df.rows[i]

C10_Witness ==
  /\ pc = "done"
  /\ stats.shown
  /\ Len(target_cars) = 2
  /\ cfg.floorWan = 10
  /\ stats.rec = "LowEV"

====
